---- MODULE Spec2Model ----
(***************************************************************************)
(* Model of the event-sourcing core: the SQL event store (SQL.Save with    *)
(* ValidateEvents, SQL.Get), the aggregate root bookkeeping, the snapshot  *)
(* handler with its SQL store, and the repository (Save, SaveSnapshot,     *)
(* GetWithContext).                                                        *)
(*                                                                         *)
(* The event store runs on database/sql.  The schema in migrate.go         *)
(* (INTEGER PRIMARY KEY AUTOINCREMENT, LastInsertId, mixed ? and $n        *)
(* placeholders) is SQLite's, so the database is modelled with SQLite's    *)
(* transaction rules: a transaction reads the committed rows, one          *)
(* transaction at a time holds the write lock from its first INSERT to its *)
(* commit or rollback, an INSERT of a transaction that finds the lock      *)
(* taken, or whose read is older than the last commit, fails with the      *)
(* driver's "database is locked" error, and a rollback discards the rows   *)
(* and rowids of the transaction.  Infrastructure failures (no connection, *)
(* I/O errors) are not modelled.                                           *)
(***************************************************************************)
EXTENDS Integers, Sequences, FiniteSets, TLC

\* ------------------------------------------------------------------ bounds

\* Longest batch handed to SQL.Save / most pending events of an aggregate.
MaxBatch == 2

\* Number of Save calls in one behaviour.
MaxCalls == 2

\* Number of TrackChange / TrackChangeWithMetadata calls in one behaviour.
MaxTracks == 4

\* Number of Repository.Get calls in one behaviour.
MaxGets == 1

\* Number of SaveSnapshot calls in one behaviour.
MaxSnaps == 2

\* The number of changes the application of SpecApp tracks.
MaxAppTracks == 2

\* ---------------------------------------------------------------- universe

\* uuid.Nil, the empty aggregate ID.
emptyAggregateID == 0

AggregateIDs == {1, 2}

AggregateTypes == {"Person", "Account"}

Versions == 1..3

\* Event.Data is "Born", "AgedOneYear", "Unserializable" (a payload json.Marshal
\* fails on) or no payload.
NilData == "nil"

NoMeta == "nil"

\* The threads that call into the store / repository.
Procs == {"t1", "t2"}

\* The aggregate instances of the application; all are Person aggregates.
Aggregates == {"a1", "a2"}

NoAggregate == "none"

NoProc == "none"

\* error values
ErrNil == "nil"

ErrEventMultipleAggregates == "ErrEventMultipleAggregates"

ErrEventMultipleAggregateTypes == "ErrEventMultipleAggregateTypes"

ErrConcurrency == "ErrConcurrency"

ErrReasonMissing == "ErrReasonMissing"

ErrMarshal == "ErrMarshal"

ErrDatabaseLocked == "ErrDatabaseLocked"

\* The error of an INSERT that violates the unique index id_type.
ErrUniqueViolation == "ErrUniqueViolation"

ErrEmptyID == "ErrEmptyID"

ErrAggregateAlreadyExists == "ErrAggregateAlreadyExists"

ErrUnsavedEvents == "ErrUnsavedEvents"

ErrSnapshotNotFound == "ErrSnapshotNotFound"

ErrAggregateNotFound == "ErrAggregateNotFound"

ErrNoEvents == "ErrNoEvents"

ErrNoMoreEvents == "ErrNoMoreEvents"

\* ctx.Err() of a cancelled context.
ErrCanceled == "context canceled"

\* An error of iterator.Next other than ErrNoMoreEvents (a failed Scan).
ErrScan == "ErrScan"

\* The run-time panic of a call through a nil interface value.
NilPointerPanic == "panic: nil pointer dereference"

\* How an event store reports that no event matches: ErrNoEvents from Get, or
\* an iterator whose first Next returns ErrNoMoreEvents.
StoreModes == {"NoEvents", "NoMoreEvents"}

VARIABLES
    table,           \* the committed rows of the events table, in rowid order
    writer,          \* the thread whose transaction holds the write lock
    pc,              \* per thread: where SQL.Save stands
    events,          \* per thread: the slice handed to SQL.Save
    currentVersion,  \* per thread: SQL.Save's currentVersion
    idx,             \* per thread: the loop index i of the insert loop
    txRows,          \* per thread: rows inserted by the open transaction
    stale,           \* per thread: a commit happened after the transaction's read
    err,             \* per thread: the error SQL.Save returned
    callNo,          \* per thread: number of the running call
    nCalls,          \* calls started so far
    caller,          \* per thread: the aggregate Repository.Save is saving
    before,          \* per thread: the aggregate root as it was when Save was called
    root,            \* per aggregate: the AggregateRoot fields
    person,          \* per aggregate: the Person fields Name and Age
    published,       \* the events handed to the event stream, in order
    nTracks,         \* TrackChange calls made so far
    nGets            \* Repository.Get calls made so far

VARIABLES
    snapshots,       \* the rows of the snapshots table
    snapErr,         \* the error the last SaveSnapshot returned
    snapAgg,         \* the aggregate the last SaveSnapshot was called with
    nSnaps,          \* SaveSnapshot calls made so far
    gpc,             \* where GetWithContext stands
    gAgg,            \* GetWithContext: the aggregate passed in
    gId,             \* GetWithContext: the id passed in
    gMode,           \* how the event store of this call reports an empty result
    ctx,             \* GetWithContext: TRUE when the context is cancelled
    iter,            \* GetWithContext: the iterator the event store returned
    storeErr,        \* GetWithContext: the error the event store's Get returned
    gErr,            \* GetWithContext: the error returned
    gSnap,           \* GetWithContext: the snapshot that was loaded, if any
    gFresh,          \* GetWithContext: the aggregate passed in was empty
    gAfter           \* GetWithContext: the afterVersion passed to the event store

VARIABLES
    snapIndex,       \* the snapshots table has the unique index id_type
    spc,             \* per thread: where the snapshot store's Save stands
    sSnap,           \* per thread: the snapshot handed to the snapshot store's Save
    sFound,          \* per thread: the SELECT of Save found a row
    sErr,            \* per thread: the error the snapshot store's Save returned
    lastSaved        \* per ID: the snapshot of the last Save that returned nil

VARIABLES
    idCall,          \* the last SetID call: its aggregate, its argument, its error
    idFuncEmpty      \* SetIDFunc has installed a generator that returns the empty ID

storeVars == <<table, writer, pc, events, currentVersion, idx, txRows, stale, err, callNo, nCalls>>

repoVars == <<caller, before, root, person, published, nTracks, nGets>>

snapStoreVars == <<snapIndex, spc, sSnap, sFound, sErr, lastSaved>>

snapVars == <<snapshots, snapErr, snapAgg, nSnaps, snapStoreVars>>

getVars == <<gpc, gAgg, gId, gMode, ctx, iter, storeErr, gErr, gSnap, gFresh, gAfter>>

idVars == <<idCall, idFuncEmpty>>

vars == <<storeVars, repoVars, snapVars, getVars, idVars>>

\* --------------------------------------------------------------- helpers

\* The zero value of AggregateRoot.
EmptyRoot ==
    [aggregateID |-> emptyAggregateID, aggregateVersion |-> 0,
     aggregateGlobalVersion |-> 0, aggregateEvents |-> <<>>]

Max(S) == CHOOSE x \in S : \A y \in S : y <= x

\* Event.Reason(): the name of the payload's type, "" without a payload.
Reason(event) == IF event.Data = NilData THEN "" ELSE event.Data

\* serializer.Marshal: TRUE when it returns an error.
MarshalFails(data) == data = "Unserializable"

\* serializer.Marshal: the bytes of a value.
Marshal(value) == <<"json", value>>

\* serializer.Unmarshal: the value of the bytes.
Unmarshal(bytes) == bytes[2]

\* ------------------------------------------------------------- validation

\* The checks taken rule by rule over the whole batch: the aggregate ID of every
\* event, then the type of every event, then the versions, then the reasons.
ValidateRuleByRule(aggregateID, aggregateType, current, evs, k) ==
    IF \E j \in 1..Len(evs) : evs[j].AggregateID # aggregateID
    THEN ErrEventMultipleAggregates
    ELSE IF \E j \in 1..Len(evs) : evs[j].AggregateType # aggregateType
    THEN ErrEventMultipleAggregateTypes
    ELSE IF \E j \in 1..Len(evs) :
                evs[j].Version # (IF j = 1 THEN current ELSE evs[j - 1].Version) + 1
    THEN ErrConcurrency
    ELSE IF \E j \in 1..Len(evs) : Reason(evs[j]) = ""
    THEN ErrReasonMissing
    ELSE ErrNil

\* The checks of one event only: the loop returns after its first iteration.
ValidateOneEvent(aggregateID, aggregateType, current, evs, k) ==
    IF k > Len(evs) THEN ErrNil
    ELSE IF evs[k].AggregateID # aggregateID THEN ErrEventMultipleAggregates
    ELSE IF evs[k].AggregateType # aggregateType THEN ErrEventMultipleAggregateTypes
    ELSE IF current + 1 # evs[k].Version THEN ErrConcurrency
    ELSE IF Reason(evs[k]) = "" THEN ErrReasonMissing
    ELSE ErrNil

RECURSIVE ValidateFrom(_, _, _, _, _)
ValidateFrom(aggregateID, aggregateType, current, evs, k) ==
    IF k > Len(evs) THEN ErrNil
    ELSE IF evs[k].AggregateID # aggregateID THEN ErrEventMultipleAggregates
    ELSE IF evs[k].AggregateType # aggregateType THEN ErrEventMultipleAggregateTypes
    ELSE IF current + 1 # evs[k].Version THEN ErrConcurrency
    ELSE IF Reason(evs[k]) = "" THEN ErrReasonMissing
    ELSE ValidateFrom(aggregateID, aggregateType, evs[k].Version, evs, k + 1)

\* ValidateEvents without the stored version: the first event is taken as given.
ValidateEventsFromFirst(aggregateID, current, evs) ==
    ValidateFrom(aggregateID, evs[1].AggregateType, evs[1].Version - 1, evs, 1)

ValidateEvents(aggregateID, current, evs) ==
    ValidateFrom(aggregateID, evs[1].AggregateType, current, evs, 1)

\* ----------------------------------------------------------- the database

\* The last version stored under the ID, whatever the type of its rows.
SelectLastVersionByID(rows, id, typ) ==
    LET vs == {rows[k].version : k \in {j \in 1..Len(rows) : rows[j].id = id}}
    IN  IF vs = {} THEN 0 ELSE Max(vs)

\* SELECT version FROM events WHERE id=? AND type=? ORDER BY version DESC LIMIT 1
\* (0 on sql.ErrNoRows).
SelectLastVersion(rows, id, typ) ==
    LET vs == {rows[k].version : k \in {j \in 1..Len(rows) : rows[j].id = id /\ rows[j].type = typ}}
    IN  IF vs = {} THEN 0 ELSE Max(vs)

\* The rowid AUTOINCREMENT gives the next row of thread p's transaction.
LastInsertId(p) ==
    1 + Max({0} \cup {table[k].seq : k \in 1..Len(table)}
                \cup {txRows[p][k].seq : k \in 1..Len(txRows[p])})

\* The row that the INSERT statement writes for an event.
InsertedRow(event, seq, call) ==
    [seq |-> seq, id |-> event.AggregateID, version |-> event.Version,
     reason |-> Reason(event), type |-> event.AggregateType,
     data |-> Marshal(event.Data),
     metadata |-> IF event.Metadata = NoMeta THEN <<>> ELSE Marshal(event.Metadata),
     call |-> call]

\* A database in which an INSERT never fails on another transaction.
ExecNeverFails(p) == FALSE

\* tx.Exec fails: another transaction holds the write lock, or committed after
\* this transaction read.
ExecFails(p) == writer \notin {NoProc, p} \/ stale[p]

\* ------------------------------------------------------------ SQL.Save

\* An error return without the rollback: the rows inserted so far stay.
ReturnWithoutRollback(p, e) ==
    /\ table' = table \o txRows[p]
    /\ pc' = [pc EXCEPT ![p] = "done"]
    /\ err' = [err EXCEPT ![p] = e]
    /\ txRows' = [txRows EXCEPT ![p] = <<>>]
    /\ writer' = IF writer = p THEN NoProc ELSE writer
    /\ stale' = [stale EXCEPT ![p] = FALSE]

\* An error return of SQL.Save: the deferred tx.Rollback() discards the rows the
\* transaction inserted and releases its locks.
Rollback(p, e) ==
    /\ table' = table
    /\ pc' = [pc EXCEPT ![p] = "done"]
    /\ err' = [err EXCEPT ![p] = e]
    /\ txRows' = [txRows EXCEPT ![p] = <<>>]
    /\ writer' = IF writer = p THEN NoProc ELSE writer
    /\ stale' = [stale EXCEPT ![p] = FALSE]

\* An entry that returns an error for the empty batch.
SaveEnterRejectingEmpty(p, batch, a) ==
    /\ nCalls' = nCalls + 1
    /\ callNo' = [callNo EXCEPT ![p] = nCalls + 1]
    /\ events' = [events EXCEPT ![p] = batch]
    /\ caller' = [caller EXCEPT ![p] = a]
    /\ IF Len(batch) = 0
       THEN /\ pc' = [pc EXCEPT ![p] = "done"]
            /\ err' = [err EXCEPT ![p] = "ErrNoEvents"]
       ELSE /\ pc' = [pc EXCEPT ![p] = "select"]
            /\ UNCHANGED err
    /\ UNCHANGED <<table, writer, currentVersion, idx, txRows, stale>>

\* Entry of SQL.Save with the slice batch, called for aggregate a (or by a
\* direct caller): the empty batch returns nil, otherwise BeginTx.
SaveEnter(p, batch, a) ==
    /\ nCalls' = nCalls + 1
    /\ callNo' = [callNo EXCEPT ![p] = nCalls + 1]
    /\ events' = [events EXCEPT ![p] = batch]
    /\ caller' = [caller EXCEPT ![p] = a]
    /\ IF Len(batch) = 0
       THEN /\ pc' = [pc EXCEPT ![p] = "done"]
            /\ err' = [err EXCEPT ![p] = ErrNil]
       ELSE /\ pc' = [pc EXCEPT ![p] = "select"]
            /\ UNCHANGED err
    /\ UNCHANGED <<table, writer, currentVersion, idx, txRows, stale>>

\* A direct call of SQL.Save with a batch of the given set.
SaveCall(p, batches) ==
    /\ pc[p] = "idle"
    /\ nCalls < MaxCalls
    /\ \E batch \in batches : SaveEnter(p, batch, NoAggregate)
    /\ UNCHANGED <<before, root, person, published, nTracks, nGets>>
    /\ UNCHANGED <<snapVars, getVars>>
    /\ UNCHANGED idVars

\* The SELECT of the last stored version of the stream of events[0].
SaveSelect(p) ==
    /\ pc[p] = "select"
    /\ currentVersion' = [currentVersion EXCEPT ![p] =
           SelectLastVersion(table, events[p][1].AggregateID, events[p][1].AggregateType)]
    /\ stale' = [stale EXCEPT ![p] = FALSE]
    /\ pc' = [pc EXCEPT ![p] = "validate"]
    /\ UNCHANGED <<table, writer, events, idx, txRows, err, callNo, nCalls>>
    /\ UNCHANGED repoVars
    /\ UNCHANGED <<snapVars, getVars>>
    /\ UNCHANGED idVars

\* eventstore.ValidateEvents and the return on its error.
SaveValidate(p) ==
    /\ pc[p] = "validate"
    /\ LET e == ValidateEvents(events[p][1].AggregateID, currentVersion[p], events[p])
       IN  IF e # ErrNil
           THEN /\ Rollback(p, e)
                /\ UNCHANGED idx
           ELSE /\ pc' = [pc EXCEPT ![p] = "insert"]
                /\ idx' = [idx EXCEPT ![p] = 1]
                /\ UNCHANGED <<table, err, txRows, writer, stale>>
    /\ UNCHANGED <<events, currentVersion, callNo, nCalls>>
    /\ UNCHANGED repoVars
    /\ UNCHANGED <<snapVars, getVars>>
    /\ UNCHANGED idVars

\* The write of the loop index in place of the row id.
SetGlobalVersionFromIndex(p, seq) ==
    /\ events' = [events EXCEPT ![p][idx[p]].GlobalVersion = idx[p]]
    /\ root' = IF caller[p] = NoAggregate THEN root
               ELSE [root EXCEPT ![caller[p]].aggregateEvents[idx[p]].GlobalVersion = idx[p]]

\* events[i].GlobalVersion = lastInsertedID: the slice is the caller's, so for a
\* call of Repository.Save the write lands in the aggregate's pending events.
SetGlobalVersion(p, seq) ==
    /\ events' = [events EXCEPT ![p][idx[p]].GlobalVersion = seq]
    /\ root' = IF caller[p] = NoAggregate THEN root
               ELSE [root EXCEPT ![caller[p]].aggregateEvents[idx[p]].GlobalVersion = seq]

\* One iteration of the insert loop: Marshal, Exec, LastInsertId, and the write
\* of the GlobalVersion into the caller's slice.
SaveInsert(p) ==
    /\ pc[p] = "insert"
    /\ LET event == events[p][idx[p]]
           seq == LastInsertId(p)
       IN  IF MarshalFails(event.Data) \/ (event.Metadata # NoMeta /\ MarshalFails(event.Metadata))
           THEN /\ Rollback(p, ErrMarshal)
                /\ UNCHANGED <<events, idx, root>>
           ELSE IF ExecFails(p)
           THEN /\ Rollback(p, ErrDatabaseLocked)
                /\ UNCHANGED <<events, idx, root>>
           ELSE /\ writer' = p
                /\ txRows' = [txRows EXCEPT ![p] = Append(@, InsertedRow(event, seq, callNo[p]))]
                /\ SetGlobalVersion(p, seq)
                /\ idx' = [idx EXCEPT ![p] = @ + 1]
                /\ pc' = [pc EXCEPT ![p] = IF idx[p] = Len(events[p]) THEN "commit" ELSE "insert"]
                /\ UNCHANGED <<table, err, stale>>
    /\ UNCHANGED <<currentVersion, callNo, nCalls>>
    /\ UNCHANGED <<caller, before, person, published, nTracks, nGets>>
    /\ UNCHANGED <<snapVars, getVars>>
    /\ UNCHANGED idVars

\* A commit that replaces the stored rows by the rows of the transaction.
SaveCommitOverwrite(p) ==
    /\ pc[p] = "commit"
    /\ table' = txRows[p]
    /\ txRows' = [txRows EXCEPT ![p] = <<>>]
    /\ writer' = NoProc
    /\ stale' = [q \in Procs |-> q # p /\ (stale[q] \/ pc[q] \in {"validate", "insert"})]
    /\ pc' = [pc EXCEPT ![p] = "done"]
    /\ err' = [err EXCEPT ![p] = ErrNil]
    /\ UNCHANGED <<events, currentVersion, idx, callNo, nCalls>>
    /\ UNCHANGED repoVars
    /\ UNCHANGED <<snapVars, getVars>>
    /\ UNCHANGED idVars

\* tx.Commit(): the rows of the transaction become durable.
SaveCommit(p) ==
    /\ pc[p] = "commit"
    /\ table' = table \o txRows[p]
    /\ txRows' = [txRows EXCEPT ![p] = <<>>]
    /\ writer' = NoProc
    /\ stale' = [q \in Procs |-> q # p /\ (stale[q] \/ pc[q] \in {"validate", "insert"})]
    /\ pc' = [pc EXCEPT ![p] = "done"]
    /\ err' = [err EXCEPT ![p] = ErrNil]
    /\ UNCHANGED <<events, currentVersion, idx, callNo, nCalls>>
    /\ UNCHANGED repoVars
    /\ UNCHANGED <<snapVars, getVars>>
    /\ UNCHANGED idVars

\* SQL.Save has returned: the frame of the call is dropped.
DropFrame(p) ==
    /\ pc' = [pc EXCEPT ![p] = "idle"]
    /\ events' = [events EXCEPT ![p] = <<>>]
    /\ err' = [err EXCEPT ![p] = ErrNil]
    /\ currentVersion' = [currentVersion EXCEPT ![p] = 0]
    /\ idx' = [idx EXCEPT ![p] = 0]
    /\ callNo' = [callNo EXCEPT ![p] = 0]
    /\ caller' = [caller EXCEPT ![p] = NoAggregate]
    /\ before' = [before EXCEPT ![p] = EmptyRoot]
    /\ UNCHANGED <<table, writer, txRows, stale, nCalls>>

\* The direct caller of SQL.Save takes the result; the thread is free again.
SaveReturn(p) ==
    /\ pc[p] = "done"
    /\ caller[p] = NoAggregate
    /\ DropFrame(p)
    /\ UNCHANGED <<root, person, published, nTracks, nGets>>
    /\ UNCHANGED <<snapVars, getVars>>
    /\ UNCHANGED idVars

\* ------------------------------------------------------ the aggregate root

\* AggregateRoot.Version
Version(r) ==
    IF Len(r.aggregateEvents) > 0
    THEN r.aggregateEvents[Len(r.aggregateEvents)].Version
    ELSE r.aggregateVersion

\* AggregateRoot.nextVersion
nextVersion(r) == Version(r) + 1

\* AggregateRoot.UnsavedEvents
UnsavedEvents(r) == Len(r.aggregateEvents) > 0

\* AggregateRoot.GlobalVersion
GlobalVersion(r) == r.aggregateGlobalVersion

\* Person.Transition
Transition(state, event) ==
    IF event.Data = "Born" THEN [Name |-> "kalle", Age |-> 0]
    ELSE IF event.Data = "AgedOneYear" THEN [state EXCEPT !.Age = @ + 1]
    ELSE state

\* update that empties the pending events and leaves the versions alone.
updateEventsOnly(r) == [r EXCEPT !.aggregateEvents = <<>>]

\* update that takes the version of the last event, not its global version.
updateWithoutGlobalVersion(r) ==
    IF Len(r.aggregateEvents) > 0
    THEN [r EXCEPT !.aggregateVersion = r.aggregateEvents[Len(r.aggregateEvents)].Version,
                   !.aggregateEvents = <<>>]
    ELSE r

\* AggregateRoot.update
update(r) ==
    IF Len(r.aggregateEvents) > 0
    THEN [r EXCEPT !.aggregateVersion = r.aggregateEvents[Len(r.aggregateEvents)].Version,
                   !.aggregateGlobalVersion = r.aggregateEvents[Len(r.aggregateEvents)].GlobalVersion,
                   !.aggregateEvents = <<>>]
    ELSE r

\* An aggregate is used by one thread at a time: while Repository.Save runs on
\* it, nothing else is called on it.  A thread inside Save calls nothing else.
InSave(a) == \E p \in Procs : pc[p] # "idle" /\ caller[p] = a

\* idFunc(): NewUuid returns an ID that is new, i.e. one that no aggregate
\* carries and no stored or pending event names (the lowest such ID stands
\* for any of them).
UsedIDs ==
    {root[a].aggregateID : a \in Aggregates}
        \cup {table[k].id : k \in 1..Len(table)}
        \cup UNION {{txRows[p][k].id : k \in 1..Len(txRows[p])} : p \in Procs}

idFunc ==
    LET new == AggregateIDs \ UsedIDs
    IN  IF idFuncEmpty THEN {emptyAggregateID}
        ELSE IF new = {} THEN {} ELSE {CHOOSE id \in new : \A other \in new : id <= other}

\* The event TrackChangeWithMetadata builds.
NewEvent(r, id, data, metadata) ==
    [AggregateID |-> id, Version |-> nextVersion(r), GlobalVersion |-> 0,
     AggregateType |-> "Person", Data |-> data, Metadata |-> metadata]

Track(a, id, data, metadata) ==
    LET event == NewEvent(root[a], id, data, metadata)
    IN  /\ root' = [root EXCEPT ![a].aggregateID = id,
                                ![a].aggregateEvents = Append(@, event)]
        /\ person' = [person EXCEPT ![a] = Transition(@, event)]
        /\ nTracks' = nTracks + 1
        /\ UNCHANGED <<storeVars, caller, before, published, nGets>>
        /\ UNCHANGED <<snapVars, getVars, idVars>>

\* AggregateRoot.TrackChangeWithMetadata (GrowOlder calls it with metadata).
TrackChangeWithMetadata(p, a) ==
    /\ pc[p] = "idle"
    /\ ~InSave(a)
    /\ nTracks < MaxTracks
    /\ Len(root[a].aggregateEvents) < MaxBatch
    /\ \E id \in (IF root[a].aggregateID = emptyAggregateID THEN idFunc ELSE {root[a].aggregateID}) :
          Track(a, id, "AgedOneYear", "foo")

\* AggregateRoot.TrackChange: TrackChangeWithMetadata with nil metadata.
TrackChange(p, a) ==
    /\ pc[p] = "idle"
    /\ ~InSave(a)
    /\ nTracks < MaxTracks
    /\ Len(root[a].aggregateEvents) < MaxBatch
    /\ \E id \in (IF root[a].aggregateID = emptyAggregateID THEN idFunc ELSE {root[a].aggregateID}) :
          \E data \in {"Born", "Unserializable"} : Track(a, id, data, NoMeta)

\* CreatePerson: a new Person on which TrackChange records Born.
CreatePerson(p, a) ==
    /\ pc[p] = "idle"
    /\ root[a] = EmptyRoot
    /\ nTracks < MaxTracks
    /\ \E id \in idFunc : Track(a, id, "Born", NoMeta)

\* Person.GrowOlder: TrackChangeWithMetadata records AgedOneYear on a person
\* that was created or loaded.
GrowOlder(p, a) ==
    /\ root[a] # EmptyRoot
    /\ TrackChangeWithMetadata(p, a)

\* A SetID that overwrites an ID that is already set.
setIDAlways(r, id) == [root |-> [r EXCEPT !.aggregateID = id], err |-> ErrNil]

\* AggregateRoot.SetID: the root afterwards and the error returned.
setID(r, id) ==
    IF r.aggregateID # emptyAggregateID
    THEN [root |-> r, err |-> ErrAggregateAlreadyExists]
    ELSE [root |-> [r EXCEPT !.aggregateID = id], err |-> ErrNil]

\* A call of AggregateRoot.SetID
SetID(p, a) ==
    /\ pc[p] = "idle"
    /\ ~InSave(a)
    /\ \E id \in AggregateIDs :
          /\ root' = [root EXCEPT ![a] = setID(@, id).root]
          /\ idCall' = [agg |-> a, id |-> id, err |-> setID(root[a], id).err]
    /\ UNCHANGED <<storeVars, caller, before, person, published, nTracks, nGets>>
    /\ UNCHANGED <<snapVars, getVars, idFuncEmpty>>

\* SetIDFunc with a generator that returns the empty ID.
SetIDFunc ==
    /\ ~idFuncEmpty
    /\ idFuncEmpty' = TRUE
    /\ UNCHANGED <<storeVars, repoVars, snapVars, getVars, idCall>>

\* ---------------------------------------------------------- the repository

\* Repository.Save up to the call of eventStore.Save(root.aggregateEvents).
RepoSave(p, a) ==
    /\ pc[p] = "idle"
    /\ ~InSave(a)
    /\ nCalls < MaxCalls
    /\ SaveEnter(p, root[a].aggregateEvents, a)
    /\ before' = [before EXCEPT ![p] = root[a]]
    /\ UNCHANGED <<root, person, published, nTracks, nGets>>
    /\ UNCHANGED <<snapVars, getVars>>
    /\ UNCHANGED idVars

\* A Repository.Save that updates the root before it publishes root.Events().
RepoSaveReturnUpdateFirst(p) ==
    /\ pc[p] = "done"
    /\ caller[p] # NoAggregate
    /\ LET a == caller[p]
       IN  IF err[p] # ErrNil
           THEN UNCHANGED <<root, published>>
           ELSE /\ root' = [root EXCEPT ![a] = update(@)]
                /\ published' = published \o update(root[a]).aggregateEvents
    /\ DropFrame(p)
    /\ UNCHANGED <<person, nTracks, nGets>>
    /\ UNCHANGED <<snapVars, getVars>>
    /\ UNCHANGED idVars

\* Repository.Save after eventStore.Save returned: on an error return it, else
\* publish root.Events() and update the root.
RepoSaveReturn(p) ==
    /\ pc[p] = "done"
    /\ caller[p] # NoAggregate
    /\ LET a == caller[p]
       IN  IF err[p] # ErrNil
           THEN UNCHANGED <<root, published>>
           ELSE /\ published' = published \o root[a].aggregateEvents
                /\ root' = [root EXCEPT ![a] = update(@)]
    /\ DropFrame(p)
    /\ UNCHANGED <<person, nTracks, nGets>>
    /\ UNCHANGED <<snapVars, getVars>>
    /\ UNCHANGED idVars

\* The query with version >= ? in place of version > ?.
RECURSIVE EventsFrom(_, _, _, _)
EventsFrom(rows, id, typ, afterVersion) ==
    LET match == {k \in 1..Len(rows) :
                    rows[k].id = id /\ rows[k].type = typ /\ rows[k].version >= afterVersion}
    IN  IF match = {} THEN <<>>
        ELSE LET k == CHOOSE i \in match : \A j \in match : rows[i].version <= rows[j].version
                 r == rows[k]
             IN  <<[AggregateID |-> r.id, Version |-> r.version, GlobalVersion |-> r.seq,
                    AggregateType |-> r.type, Data |-> Unmarshal(r.data),
                    Metadata |-> IF r.metadata = <<>> THEN NoMeta ELSE Unmarshal(r.metadata)]>>
                 \o EventsFrom(rows, id, typ, r.version + 1)

\* SELECT ... FROM events WHERE id = ? AND type = ? AND version > ?
\* ORDER BY version ASC: the rows SQL.Get's iterator yields, as events.
RECURSIVE EventsAfter(_, _, _, _)
EventsAfter(rows, id, typ, afterVersion) ==
    LET match == {k \in 1..Len(rows) :
                    rows[k].id = id /\ rows[k].type = typ /\ rows[k].version > afterVersion}
    IN  IF match = {} THEN <<>>
        ELSE LET k == CHOOSE i \in match : \A j \in match : rows[i].version <= rows[j].version
                 r == rows[k]
             IN  <<[AggregateID |-> r.id, Version |-> r.version, GlobalVersion |-> r.seq,
                    AggregateType |-> r.type, Data |-> Unmarshal(r.data),
                    Metadata |-> IF r.metadata = <<>> THEN NoMeta ELSE Unmarshal(r.metadata)]>>
                 \o EventsAfter(rows, id, typ, r.version)

\* AggregateRoot.BuildFromHistory, the root fields.
RECURSIVE BuildFromHistory(_, _)
BuildFromHistory(r, evs) ==
    IF evs = <<>> THEN r
    ELSE BuildFromHistory([r EXCEPT !.aggregateID = Head(evs).AggregateID,
                                    !.aggregateVersion = Head(evs).Version,
                                    !.aggregateGlobalVersion = Head(evs).GlobalVersion],
                          Tail(evs))

\* A BuildFromHistory that calls no Transition.
ReplayNothing(state, evs) == state

\* AggregateRoot.BuildFromHistory, the transitions of the aggregate.
RECURSIVE Replay(_, _)
Replay(state, evs) ==
    IF evs = <<>> THEN state ELSE Replay(Transition(state, Head(evs)), Tail(evs))

\* Repository.Get without a snapshot store: the events after root.Version() are
\* applied one by one; without events and at version 0 it is aggregate-not-found.
RepoGet(p, a) ==
    /\ pc[p] = "idle"
    /\ ~InSave(a)
    /\ nGets < MaxGets
    /\ nGets' = nGets + 1
    /\ \E id \in AggregateIDs :
          LET evs == EventsAfter(table, id, "Person", Version(root[a]))
          IN  /\ root' = [root EXCEPT ![a] = BuildFromHistory(@, evs)]
              /\ person' = [person EXCEPT ![a] = Replay(@, evs)]
    /\ UNCHANGED <<storeVars, caller, before, published, nTracks>>
    /\ UNCHANGED <<snapVars, getVars>>
    /\ UNCHANGED idVars

\* ------------------------------------------------------------ snapshots

\* The zero value Snapshot{}.
NoSnapshot ==
    [ID |-> emptyAggregateID, Type |-> "", Version |-> 0, GlobalVersion |-> 0, State |-> <<>>]

\* validate: the aggregate may be saved as a snapshot.
validate(r) ==
    IF r.aggregateID = emptyAggregateID THEN ErrEmptyID
    ELSE IF UnsavedEvents(r) THEN ErrUnsavedEvents
    ELSE ErrNil

\* The Snapshot literal of saveAggregate: ID, Type, Version and State are set,
\* a global version is not, so the store receives the zero value for it.
SnapshotOf(r, state) ==
    [ID |-> r.aggregateID, Type |-> "Person", Version |-> Version(r),
     GlobalVersion |-> 0, State |-> Marshal(state)]

\* The rows of the snapshots table that hold the snapshot of (id, typ).
SnapshotRows(rows, id, typ) == {k \in 1..Len(rows) : rows[k].id = id /\ rows[k].type = typ}

\* Snapshot store Save: SELECT id ... LIMIT 1, then INSERT when no row holds
\* (id, type), else UPDATE of the rows that hold it.
SnapshotStoreSave(rows, snap) ==
    IF SnapshotRows(rows, snap.ID, snap.Type) = {}
    THEN Append(rows, [id |-> snap.ID, type |-> snap.Type, version |-> snap.Version,
                       global_version |-> snap.GlobalVersion, state |-> snap.State])
    ELSE [k \in 1..Len(rows) |->
            IF k \in SnapshotRows(rows, snap.ID, snap.Type)
            THEN [rows[k] EXCEPT !.state = snap.State, !.version = snap.Version,
                                 !.global_version = snap.GlobalVersion]
            ELSE rows[k]]

\* Snapshot store Get: SELECT state, version, global_version ... LIMIT 1
\* (NoSnapshot stands for sql.ErrNoRows, i.e. ErrSnapshotNotFound).
SnapshotStoreGet(rows, id, typ) ==
    IF SnapshotRows(rows, id, typ) = {} THEN NoSnapshot
    ELSE LET k == CHOOSE i \in SnapshotRows(rows, id, typ) :
                      \A j \in SnapshotRows(rows, id, typ) : i <= j
         IN  [ID |-> id, Type |-> typ, Version |-> rows[k].version,
              GlobalVersion |-> rows[k].global_version, State |-> rows[k].state]

\* A handler that stores the snapshot without validating the aggregate.
snapshotSaveUnchecked(rows, r, state) ==
    [err |-> ErrNil, rows |-> SnapshotStoreSave(rows, SnapshotOf(r, state))]

\* SnapshotHandler.Save (saveAggregate): validate, Marshal, store Save.
snapshotSave(rows, r, state) ==
    IF validate(r) # ErrNil
    THEN [err |-> validate(r), rows |-> rows]
    ELSE [err |-> ErrNil, rows |-> SnapshotStoreSave(rows, SnapshotOf(r, state))]

\* A setInternals that sets the ID and leaves the versions alone.
setIDOnly(r, id, version, globalVersion) ==
    [r EXCEPT !.aggregateID = id, !.aggregateEvents = <<>>]

\* AggregateRoot.setInternals
setInternals(r, id, version, globalVersion) ==
    [r EXCEPT !.aggregateID = id, !.aggregateVersion = version,
              !.aggregateGlobalVersion = globalVersion, !.aggregateEvents = <<>>]

\* Repository.SaveSnapshot on a repository that has a snapshot handler.
RepoSaveSnapshot(p, a) ==
    /\ pc[p] = "idle"
    /\ ~InSave(a)
    /\ nSnaps < MaxSnaps
    /\ nSnaps' = nSnaps + 1
    /\ snapAgg' = a
    /\ snapErr' = snapshotSave(snapshots, root[a], person[a]).err
    /\ snapshots' = snapshotSave(snapshots, root[a], person[a]).rows
    /\ UNCHANGED <<storeVars, repoVars, getVars, snapStoreVars>>
    /\ UNCHANGED idVars

\* ------------------------------------------- the snapshot store's Save

\* The snapshots a direct caller hands to the snapshot store.
SnapshotInputs ==
    {[ID |-> id, Type |-> "Person", Version |-> v, GlobalVersion |-> v,
      State |-> Marshal([Name |-> "kalle", Age |-> v])] : id \in AggregateIDs, v \in 1..2}

\* The row of the snapshots table that INSERT writes for a snapshot.
SnapshotRow(snap) ==
    [id |-> snap.ID, type |-> snap.Type, version |-> snap.Version,
     global_version |-> snap.GlobalVersion, state |-> snap.State]

\* UPDATE snapshots SET state, version, global_version WHERE id AND type.
UpdateSnapshotRows(rows, snap) ==
    [k \in 1..Len(rows) |->
        IF k \in SnapshotRows(rows, snap.ID, snap.Type)
        THEN [rows[k] EXCEPT !.state = snap.State, !.version = snap.Version,
                             !.global_version = snap.GlobalVersion]
        ELSE rows[k]]

\* A call of the snapshot store's Save by thread p: BeginTx.
SnapSaveCall(p, snap) ==
    /\ spc[p] = "idle"
    /\ nSnaps < MaxSnaps
    /\ nSnaps' = nSnaps + 1
    /\ spc' = [spc EXCEPT ![p] = "select"]
    /\ sSnap' = [sSnap EXCEPT ![p] = snap]
    /\ UNCHANGED <<snapshots, snapErr, snapAgg, snapIndex, sFound, sErr, lastSaved>>
    /\ UNCHANGED <<storeVars, repoVars, getVars>>
    /\ UNCHANGED idVars

\* SELECT id FROM snapshots WHERE id=$1 AND type=$2 LIMIT 1.
SnapSaveSelect(p) ==
    /\ spc[p] = "select"
    /\ sFound' = [sFound EXCEPT ![p] = SnapshotRows(snapshots, sSnap[p].ID, sSnap[p].Type) # {}]
    /\ spc' = [spc EXCEPT ![p] = "exec"]
    /\ UNCHANGED <<snapshots, snapErr, snapAgg, nSnaps, snapIndex, sSnap, sErr, lastSaved>>
    /\ UNCHANGED <<storeVars, repoVars, getVars>>
    /\ UNCHANGED idVars

\* The INSERT (no row was found) or the UPDATE (a row was found) and the
\* Commit.  With the unique index the INSERT of a key that a row holds by now
\* fails, and Save returns the error after the deferred Rollback.
SnapSaveExec(p) ==
    /\ spc[p] = "exec"
    /\ IF /\ ~sFound[p]
          /\ snapIndex
          /\ SnapshotRows(snapshots, sSnap[p].ID, sSnap[p].Type) # {}
       THEN /\ sErr' = [sErr EXCEPT ![p] = ErrUniqueViolation]
            /\ UNCHANGED <<snapshots, lastSaved>>
       ELSE /\ snapshots' = IF sFound[p] THEN UpdateSnapshotRows(snapshots, sSnap[p])
                            ELSE Append(snapshots, SnapshotRow(sSnap[p]))
            /\ sErr' = [sErr EXCEPT ![p] = ErrNil]
            /\ lastSaved' = [lastSaved EXCEPT ![sSnap[p].ID] = sSnap[p]]
    /\ spc' = [spc EXCEPT ![p] = "done"]
    /\ UNCHANGED <<snapErr, snapAgg, nSnaps, snapIndex, sSnap, sFound>>
    /\ UNCHANGED <<storeVars, repoVars, getVars>>
    /\ UNCHANGED idVars

\* The caller takes the result of the snapshot store's Save.
SnapSaveReturn(p) ==
    /\ spc[p] = "done"
    /\ spc' = [spc EXCEPT ![p] = "idle"]
    /\ sSnap' = [sSnap EXCEPT ![p] = NoSnapshot]
    /\ sFound' = [sFound EXCEPT ![p] = FALSE]
    /\ sErr' = [sErr EXCEPT ![p] = ErrNil]
    /\ UNCHANGED <<snapshots, snapErr, snapAgg, nSnaps, snapIndex, lastSaved>>
    /\ UNCHANGED <<storeVars, repoVars, getVars>>
    /\ UNCHANGED idVars

\* ------------------------------------------------------- GetWithContext

\* The nil EventIterator.
NoIterator == [valid |-> FALSE, rows |-> <<>>, pos |-> 0, yielded |-> <<>>, closed |-> 0]

\* iterator.Next: the next event of the result, ErrNoMoreEvents after the last.
iteratorNext(it) ==
    IF it.pos < Len(it.rows)
    THEN [event |-> it.rows[it.pos + 1], err |-> ErrNil]
    ELSE [event |-> <<>>, err |-> ErrNoMoreEvents]

\* iterator.Close
iteratorClose(it) == [it EXCEPT !.closed = @ + 1]

\* A return of GetWithContext with error e.
GetDone(e) ==
    /\ gpc' = "done"
    /\ gErr' = e

\* The call GetWithContext(ctx, id, aggregate) of thread p; the context is not
\* cancelled yet, and the event store of the repository reports an empty
\* result in the way mode says.
GetCall(p, a, id, mode) ==
    /\ pc[p] = "idle"
    /\ ~InSave(a)
    /\ gpc = "idle"
    /\ nGets < MaxGets
    /\ nGets' = nGets + 1
    /\ gpc' = "snapshot"
    /\ gAgg' = a
    /\ gId' = id
    /\ gMode' = mode
    /\ gFresh' = (root[a] = EmptyRoot /\ person[a] = [Name |-> "", Age |-> 0])
    /\ UNCHANGED <<ctx, iter, storeErr, gErr, gSnap, gAfter>>
    /\ UNCHANGED <<storeVars, caller, before, root, person, published, nTracks, snapVars>>
    /\ UNCHANGED idVars

\* The context is cancelled from the outside while GetWithContext runs.
CancelCtx ==
    /\ gpc \notin {"idle", "done"}
    /\ ~ctx
    /\ ctx' = TRUE
    /\ UNCHANGED <<gpc, gAgg, gId, gMode, iter, storeErr, gErr, gSnap, gFresh, gAfter>>
    /\ UNCHANGED <<storeVars, repoVars, snapVars>>
    /\ UNCHANGED idVars

\* r.snapshot.Get(ctx, id, aggregate) and the return on its error: the store's
\* Get fails on a cancelled context; a snapshot that is found is unmarshalled
\* into the aggregate and sets the root's internals.
GetSnapshot ==
    /\ gpc = "snapshot"
    /\ LET snap == SnapshotStoreGet(snapshots, gId, "Person")
       IN  IF ctx
           THEN /\ GetDone(ErrCanceled)
                /\ UNCHANGED <<root, person, gSnap>>
           ELSE IF snap = NoSnapshot
           THEN /\ gpc' = "afterSnapshot"
                /\ UNCHANGED <<root, person, gSnap, gErr>>
           ELSE /\ gpc' = "afterSnapshot"
                /\ person' = [person EXCEPT ![gAgg] = Unmarshal(snap.State)]
                /\ root' = [root EXCEPT ![gAgg] =
                               setInternals(@, snap.ID, snap.Version, snap.GlobalVersion)]
                /\ gSnap' = snap
                /\ UNCHANGED gErr
    /\ UNCHANGED <<gAgg, gId, gMode, ctx, iter, storeErr, gFresh, gAfter>>
    /\ UNCHANGED <<storeVars, caller, before, published, nTracks, nGets, snapVars>>
    /\ UNCHANGED idVars

\* The step after the snapshot without the look at ctx.Err().
GetAfterSnapshotUnchecked ==
    /\ gpc = "afterSnapshot"
    /\ gpc' = "store"
    /\ UNCHANGED <<gAgg, gId, gMode, ctx, iter, storeErr, gErr, gSnap, gFresh, gAfter>>
    /\ UNCHANGED <<storeVars, repoVars, snapVars>>
    /\ UNCHANGED idVars

\* else if ctx.Err() != nil after the snapshot was fetched.
GetAfterSnapshot ==
    /\ gpc = "afterSnapshot"
    /\ IF ctx THEN GetDone(ErrCanceled)
       ELSE /\ gpc' = "store"
            /\ UNCHANGED gErr
    /\ UNCHANGED <<gAgg, gId, gMode, ctx, iter, storeErr, gSnap, gFresh, gAfter>>
    /\ UNCHANGED <<storeVars, repoVars, snapVars>>
    /\ UNCHANGED idVars

\* r.eventStore.Get(ctx, id, aggregateType, root.Version()): an error on a
\* cancelled context, else the iterator over the events after root.Version();
\* a store of mode "NoEvents" returns ErrNoEvents and no iterator when no
\* event matches.
GetStore ==
    /\ gpc = "store"
    /\ gpc' = "afterStore"
    /\ gAfter' = Version(root[gAgg])
    /\ LET rows == EventsAfter(table, gId, "Person", Version(root[gAgg]))
       IN  IF ctx
           THEN /\ storeErr' = ErrCanceled
                /\ iter' = NoIterator
           ELSE IF rows = <<>> /\ gMode = "NoEvents"
           THEN /\ storeErr' = ErrNoEvents
                /\ iter' = NoIterator
           ELSE /\ storeErr' = ErrNil
                /\ iter' = [valid |-> TRUE, rows |-> rows, pos |-> 0,
                            yielded |-> <<>>, closed |-> 0]
    /\ UNCHANGED <<gAgg, gId, gMode, ctx, gErr, gSnap, gFresh>>
    /\ UNCHANGED <<storeVars, repoVars, snapVars>>
    /\ UNCHANGED idVars

\* The checks on the result of eventStore.Get and defer eventIterator.Close():
\* the defer statement evaluates the method value, which panics on a nil
\* iterator.
GetAfterStore ==
    /\ gpc = "afterStore"
    /\ IF storeErr \notin {ErrNil, ErrNoEvents} THEN GetDone(storeErr)
       ELSE IF storeErr = ErrNoEvents /\ Version(root[gAgg]) = 0
       THEN GetDone(ErrAggregateNotFound)
       ELSE IF ctx THEN GetDone(ErrCanceled)
       ELSE IF ~iter.valid THEN GetDone(NilPointerPanic)
       ELSE /\ gpc' = "loop"
            /\ UNCHANGED gErr
    /\ UNCHANGED <<gAgg, gId, gMode, ctx, iter, storeErr, gSnap, gFresh, gAfter>>
    /\ UNCHANGED <<storeVars, repoVars, snapVars>>
    /\ UNCHANGED idVars

\* One pass of the loop: the select on ctx.Done(), else eventIterator.Next()
\* (which may fail), the checks on its error, and BuildFromHistory of the
\* event.  Every return runs the deferred Close.
GetLoop ==
    /\ gpc = "loop"
    /\ LET next == iteratorNext(iter)
       IN  \/ /\ ctx
              /\ GetDone(ErrCanceled)
              /\ iter' = iteratorClose(iter)
              /\ UNCHANGED <<root, person>>
           \/ /\ ~ctx
              /\ next.err = ErrNil
              /\ GetDone(ErrScan)
              /\ iter' = iteratorClose(iter)
              /\ UNCHANGED <<root, person>>
           \/ /\ ~ctx
              /\ next.err = ErrNoMoreEvents
              /\ GetDone(IF Version(root[gAgg]) = 0 THEN ErrAggregateNotFound ELSE ErrNil)
              /\ iter' = iteratorClose(iter)
              /\ UNCHANGED <<root, person>>
           \/ /\ ~ctx
              /\ next.err = ErrNil
              /\ root' = [root EXCEPT ![gAgg] = BuildFromHistory(@, <<next.event>>)]
              /\ person' = [person EXCEPT ![gAgg] = Replay(@, <<next.event>>)]
              /\ iter' = [iter EXCEPT !.pos = @ + 1, !.yielded = Append(@, next.event)]
              /\ UNCHANGED <<gpc, gErr>>
    /\ UNCHANGED <<gAgg, gId, gMode, ctx, storeErr, gSnap, gFresh, gAfter>>
    /\ UNCHANGED <<storeVars, caller, before, published, nTracks, nGets, snapVars>>
    /\ UNCHANGED idVars

\* The caller takes the result of GetWithContext.
GetReturn ==
    /\ gpc = "done"
    /\ gpc' = "idle"
    /\ gAgg' = NoAggregate
    /\ gId' = emptyAggregateID
    /\ gMode' = "NoMoreEvents"
    /\ ctx' = FALSE
    /\ iter' = NoIterator
    /\ storeErr' = ErrNil
    /\ gErr' = ErrNil
    /\ gSnap' = NoSnapshot
    /\ gFresh' = FALSE
    /\ gAfter' = 0
    /\ UNCHANGED <<storeVars, repoVars, snapVars>>
    /\ UNCHANGED idVars

\* ------------------------------------------------------------- batches

\* The events a caller can put into a batch: any stream key, any version, with
\* or without a payload.
Events(payloads) ==
    [AggregateID : AggregateIDs, Version : Versions, GlobalVersion : {0},
     AggregateType : AggregateTypes, Data : payloads, Metadata : {NoMeta}]

RECURSIVE SeqsUpTo(_, _)
SeqsUpTo(S, n) ==
    IF n = 0 THEN {<<>>}
    ELSE LET shorter == SeqsUpTo(S, n - 1)
         IN  shorter \cup {Append(s, e) : s \in {t \in shorter : Len(t) = n - 1}, e \in S}

\* Every batch of at most MaxBatch events, valid or not.
Batches == SeqsUpTo(Events({NilData, "Born"}), MaxBatch)

\* Batches of one Person stream with consecutive versions and a payload in every
\* event; the serializer may fail on a payload.
StreamBatches ==
    {b \in SeqsUpTo(Events({"Born", "Unserializable"}), MaxBatch) :
        /\ Len(b) >= 1
        /\ \A k \in 1..Len(b) :
              /\ b[k].AggregateID = b[1].AggregateID
              /\ b[k].AggregateType = "Person"
              /\ b[k].Version = b[1].Version + k - 1}

\* ---------------------------------------------------------- specifications

\* The state after the stores, the repository and the aggregates are
\* constructed.
Constructed ==
    /\ table = <<>>
    /\ writer = NoProc
    /\ pc = [p \in Procs |-> "idle"]
    /\ events = [p \in Procs |-> <<>>]
    /\ currentVersion = [p \in Procs |-> 0]
    /\ idx = [p \in Procs |-> 0]
    /\ txRows = [p \in Procs |-> <<>>]
    /\ stale = [p \in Procs |-> FALSE]
    /\ err = [p \in Procs |-> ErrNil]
    /\ callNo = [p \in Procs |-> 0]
    /\ nCalls = 0
    /\ caller = [p \in Procs |-> NoAggregate]
    /\ before = [p \in Procs |-> EmptyRoot]
    /\ root = [a \in Aggregates |-> EmptyRoot]
    /\ person = [a \in Aggregates |-> [Name |-> "", Age |-> 0]]
    /\ published = <<>>
    /\ nTracks = 0
    /\ nGets = 0
    /\ snapshots = <<>>
    /\ snapErr = ErrNil
    /\ snapAgg = NoAggregate
    /\ nSnaps = 0
    /\ gpc = "idle"
    /\ gAgg = NoAggregate
    /\ gId = emptyAggregateID
    /\ gMode = "NoMoreEvents"
    /\ ctx = FALSE
    /\ iter = NoIterator
    /\ storeErr = ErrNil
    /\ gErr = ErrNil
    /\ gSnap = NoSnapshot
    /\ gFresh = FALSE
    /\ gAfter = 0
    /\ spc = [p \in Procs |-> "idle"]
    /\ sSnap = [p \in Procs |-> NoSnapshot]
    /\ sFound = [p \in Procs |-> FALSE]
    /\ sErr = [p \in Procs |-> ErrNil]
    /\ lastSaved = [id \in AggregateIDs |-> NoSnapshot]
    /\ idCall = [agg |-> NoAggregate, id |-> emptyAggregateID, err |-> ErrNil]
    /\ idFuncEmpty = FALSE

\* The snapshot store is set up with Migrate: the snapshots table has the
\* unique index.
Init == Constructed /\ snapIndex = TRUE

\* The snapshot store is set up with Migrate or with MigrateTest, which
\* creates the table without the index.
InitSnapshotStore == Constructed /\ snapIndex \in BOOLEAN

\* Two threads saving batches of well-formed streams concurrently.
Next ==
    \E p \in Procs :
        \/ SaveCall(p, StreamBatches)
        \/ SaveSelect(p)
        \/ SaveValidate(p)
        \/ SaveInsert(p)
        \/ SaveCommit(p)
        \/ SaveReturn(p)

Spec == Init /\ [][Next]_vars

\* One thread: it first builds streams with well-formed batches, and its last
\* call saves an arbitrary batch.
NextSeq ==
    \/ SaveCall("t1", IF nCalls + 1 < MaxCalls THEN StreamBatches ELSE Batches)
    \/ SaveSelect("t1")
    \/ SaveValidate("t1")
    \/ SaveInsert("t1")
    \/ SaveCommit("t1")
    \/ SaveReturn("t1")

SpecSeq == Init /\ [][NextSeq]_vars

\* One thread of an application: it tracks changes on Person aggregates, saves
\* them through the repository and loads them.
NextRepo ==
    \/ \E a \in Aggregates :
          \/ TrackChange("t1", a)
          \/ TrackChangeWithMetadata("t1", a)
          \/ RepoGet("t1", a)
          \/ RepoSave("t1", a)
    \/ SaveSelect("t1")
    \/ SaveValidate("t1")
    \/ SaveInsert("t1")
    \/ SaveCommit("t1")
    \/ RepoSaveReturn("t1")

SpecRepo == Init /\ [][NextRepo]_vars

\* One thread of an application whose repository has a snapshot handler: it
\* first creates the person a1, lets it grow older and saves it and its
\* snapshot, and then loads aggregates with GetWithContext, whose context may be cancelled at
\* any point.
NextSnap ==
    \/ /\ nGets = 0
       /\ gpc = "idle"
       /\ \/ CreatePerson("t1", "a1")
          \/ GrowOlder("t1", "a1")
          \/ RepoSave("t1", "a1")
          \/ RepoSaveSnapshot("t1", "a1")
    \/ SaveSelect("t1")
    \/ SaveValidate("t1")
    \/ SaveInsert("t1")
    \/ SaveCommit("t1")
    \/ RepoSaveReturn("t1")
    \/ \E a \in Aggregates, id \in AggregateIDs, mode \in StoreModes : GetCall("t1", a, id, mode)
    \/ CancelCtx
    \/ GetSnapshot
    \/ GetAfterSnapshot
    \/ GetStore
    \/ GetAfterStore
    \/ GetLoop
    \/ GetReturn

SpecSnap == Init /\ [][NextSnap]_vars

\* Two threads saving snapshots to the snapshot store concurrently.
NextSnapStore ==
    \E p \in Procs :
        \/ \E snap \in SnapshotInputs : SnapSaveCall(p, snap)
        \/ SnapSaveSelect(p)
        \/ SnapSaveExec(p)
        \/ SnapSaveReturn(p)

SpecSnapStore == InitSnapshotStore /\ [][NextSnapStore]_vars

\* One thread working on aggregate roots: it sets IDs from the outside,
\* replaces the ID generator and tracks changes.
NextRoot ==
    \/ \E a \in Aggregates :
          \/ SetID("t1", a)
          \/ TrackChange("t1", a)
          \/ TrackChangeWithMetadata("t1", a)
    \/ SetIDFunc

SpecRoot == Init /\ [][NextRoot]_vars

\* One thread of an application whose repository has a snapshot handler: on
\* any of its aggregates it sets IDs, tracks changes (CreatePerson, GrowOlder),
\* saves, saves snapshots and loads with Get; it may replace the ID generator
\* before it tracks the first change.  The event store is the SQL store, whose
\* Get always returns an iterator.
NextApp ==
    \/ /\ gpc = "idle"
       /\ \/ \E a \in Aggregates :
                \/ SetID("t1", a)
                \/ nTracks < MaxAppTracks /\ CreatePerson("t1", a)
                \/ nTracks < MaxAppTracks /\ GrowOlder("t1", a)
                \/ RepoSave("t1", a)
                \/ RepoSaveSnapshot("t1", a)
          \/ nTracks = 0 /\ SetIDFunc
    \/ SaveSelect("t1")
    \/ SaveValidate("t1")
    \/ SaveInsert("t1")
    \/ SaveCommit("t1")
    \/ RepoSaveReturn("t1")
    \/ \E a \in Aggregates, id \in AggregateIDs : GetCall("t1", a, id, "NoMoreEvents")
    \/ GetSnapshot
    \/ GetAfterSnapshot
    \/ GetStore
    \/ GetAfterStore
    \/ GetLoop
    \/ GetReturn

SpecApp == Init /\ [][NextApp]_vars

\* ------------------------------------------------------------- properties

\* The rows a call left in the events table, in table order.
RowsOfCall(c) == SelectSeq(table, LAMBDA r : r.call = c)

\* The stream of a batch: the key of its first event.
SameStream(b1, b2) ==
    /\ b1[1].AggregateID = b2[1].AggregateID
    /\ b1[1].AggregateType = b2[1].AggregateType

\* Every event of the batch is one the store accepts on a stream whose last
\* version is current, and the serializer encodes it.
ValidBatch(b, current) ==
    \A k \in 1..Len(b) :
        /\ b[k].AggregateID = b[1].AggregateID
        /\ b[k].AggregateType = b[1].AggregateType
        /\ b[k].Version = current + k
        /\ b[k].Data \notin {NilData, "Unserializable"}

\* C1: when two Save calls for the same stream run concurrently (both read the
\* same last stored version v, and each saves a valid batch starting at v + 1),
\* at most one succeeds and the other returns ErrConcurrency.
C1_LoserGetsErrConcurrency ==
    \A p, q \in Procs :
        ( /\ p # q
          /\ pc[p] = "done" /\ pc[q] = "done"
          /\ Len(events[p]) > 0 /\ Len(events[q]) > 0
          /\ SameStream(events[p], events[q])
          /\ currentVersion[p] = currentVersion[q]
          /\ ValidBatch(events[p], currentVersion[p])
          /\ ValidBatch(events[q], currentVersion[q]) )
        => /\ ~(err[p] = ErrNil /\ err[q] = ErrNil)
           /\ (err[p] = ErrNil => err[q] = ErrConcurrency)

\* C2: a Save whose first event's version is not the stream's last stored
\* version + 1 returns ErrConcurrency and appends nothing: the events table, and
\* so what Get returns for every stream, is what it was before the call.
C2_WrongFirstVersionRejected ==
    [][\A p \in Procs :
          ( /\ pc[p] \in {"select", "validate"}
            /\ pc'[p] # pc[p]
            /\ events[p][1].Version #
                 SelectLastVersion(table, events[p][1].AggregateID, events[p][1].AggregateType) + 1 )
          => /\ table' = table
             /\ pc[p] = "validate" =>
                  /\ pc'[p] = "done"
                  /\ err'[p] = ErrConcurrency
                  /\ txRows'[p] = <<>>
                  /\ RowsOfCall(callNo[p])' = <<>>]_vars

\* A Save of version 1 to a stream that already holds events was rejected.
C2_Witness ==
    \E p \in Procs :
        /\ pc[p] = "done"
        /\ err[p] = ErrConcurrency
        /\ Len(events[p]) > 0
        /\ events[p][1].Version = 1
        /\ SelectLastVersion(table, events[p][1].AggregateID, events[p][1].AggregateType) >= 1
        /\ RowsOfCall(callNo[p]) = <<>>

\* C3: Save is atomic per batch: the rows of one call carry consecutive global
\* versions, a call that returned nil has every event of its batch in the table,
\* in order, under the global versions written into the batch, and a call that
\* has not returned or returned an error has no row in the table.
C3_SaveAtomic ==
    /\ \A c \in 1..nCalls :
           LET mine == RowsOfCall(c)
           IN  \A k \in 1..Len(mine) : mine[k].seq = mine[1].seq + k - 1
    /\ \A p \in Procs :
           callNo[p] # 0 =>
               LET mine == RowsOfCall(callNo[p])
                   b == events[p]
               IN  IF pc[p] = "done" /\ err[p] = ErrNil
                   THEN /\ Len(mine) = Len(b)
                        /\ \A k \in 1..Len(b) :
                               /\ mine[k].id = b[k].AggregateID
                               /\ mine[k].type = b[k].AggregateType
                               /\ mine[k].version = b[k].Version
                               /\ Unmarshal(mine[k].data) = b[k].Data
                               /\ mine[k].seq = b[k].GlobalVersion
                   ELSE mine = <<>>

\* One call stored its two events, another failed on its second event after
\* the first was inserted.
C3_Witness ==
    \E p, q \in Procs :
        /\ pc[p] = "done" /\ err[p] = ErrNil /\ Len(events[p]) = 2
        /\ Len(RowsOfCall(callNo[p])) = 2
        /\ pc[q] = "done" /\ err[q] = ErrMarshal /\ idx[q] = 2
        /\ RowsOfCall(callNo[q]) = <<>>

\* C4: global versions follow append order: every global version a committing
\* Save assigned, in its rows and in its batch, is greater than 0 and greater
\* than the global version of every row committed before it.
C4_GlobalVersionsFollowAppendOrder ==
    [][\A p \in Procs :
          (pc[p] = "commit" /\ pc'[p] = "done") =>
              \A k \in 1..Len(events'[p]) :
                  /\ events'[p][k].GlobalVersion > 0
                  /\ txRows[p][k].seq > 0
                  /\ \A j \in 1..Len(table) :
                         /\ events'[p][k].GlobalVersion > table[j].seq
                         /\ txRows[p][k].seq > table[j].seq]_vars

\* A Save committed after another one and holds the greater global versions.
C4_Witness ==
    \E p \in Procs :
        /\ pc[p] = "done" /\ err[p] = ErrNil /\ Len(events[p]) > 0
        /\ \E j \in 1..Len(table) :
               /\ table[j].call # callNo[p]
               /\ table[j].seq < events[p][1].GlobalVersion

\* C5: for an aggregate with nothing persisted (persisted version 0) on which
\* TrackChange was called n >= 1 times, a successful Repository.Save leaves
\* Version() = n, UnsavedEvents() false and Events() empty.  (The pending
\* events of an aggregate at persisted version 0 are exactly the events of
\* its TrackChange calls.)
C5_FreshAggregateAfterSave ==
    [][\A p \in Procs :
          ( /\ pc[p] = "done" /\ pc'[p] = "idle"
            /\ caller[p] # NoAggregate
            /\ err[p] = ErrNil
            /\ root[caller[p]].aggregateVersion = 0
            /\ Len(root[caller[p]].aggregateEvents) >= 1 )
          => LET n == Len(root[caller[p]].aggregateEvents)
                 saved == root'[caller[p]]
             IN  /\ Version(saved) = n
                 /\ ~UnsavedEvents(saved)
                 /\ saved.aggregateEvents = <<>>]_vars

\* Two TrackChange calls on a fresh aggregate and one Save, which succeeded.
C5_Witness ==
    \E a \in Aggregates :
        /\ nTracks = 2 /\ nCalls = 1 /\ nGets = 0
        /\ Len(published) = 2
        /\ Version(root[a]) = 2
        /\ ~UnsavedEvents(root[a])

\* C6: a Repository.Save that returns an error leaves the aggregate as it was
\* when Save was called (persisted version, global version, pending events with
\* global version 0), and publishes nothing.
C6_FailedSaveLeavesAggregate ==
    [][\A p \in Procs :
          ( /\ pc[p] = "done" /\ pc'[p] = "idle"
            /\ caller[p] # NoAggregate
            /\ err[p] # ErrNil )
          => /\ root'[caller[p]] = before[p]
             /\ \A k \in 1..Len(root'[caller[p]].aggregateEvents) :
                    root'[caller[p]].aggregateEvents[k].GlobalVersion = 0
             /\ published' = published]_vars

\* C7: the event TrackChange creates has version = persisted version + number
\* of pending events before the call + 1 and global version 0, it is appended
\* after the pending events, and Version() afterwards is its version.
C7_TrackChangeVersion ==
    [][nTracks' # nTracks =>
          \A a \in Aggregates :
              root'[a] # root[a] =>
                  LET old == root[a].aggregateEvents
                      new == root'[a].aggregateEvents
                      event == new[Len(new)]
                  IN  /\ Len(new) = Len(old) + 1
                      /\ SubSeq(new, 1, Len(old)) = old
                      /\ event.Version = root[a].aggregateVersion + Len(old) + 1
                      /\ event.GlobalVersion = 0
                      /\ Version(root'[a]) = event.Version]_vars

\* The preconditions of an append that batch b violates on a stream whose last
\* stored version is current: I1 (one aggregate ID and type), I2 (consecutive
\* versions inside the batch), I3 (first version = last stored + 1), I4 (every
\* event has a reason).
IDsDiffer(b) == \E k \in 1..Len(b) : b[k].AggregateID # b[1].AggregateID

TypesDiffer(b) == \E k \in 1..Len(b) : b[k].AggregateType # b[1].AggregateType

VersionGap(b) == \E k \in 2..Len(b) : b[k].Version # b[k - 1].Version + 1

WrongFirstVersion(b, current) == b[1].Version # current + 1

ReasonMissing(b) == \E k \in 1..Len(b) : b[k].Data = NilData

Violated(b, current) ==
    {i \in {"I1", "I2", "I3", "I4"} :
        \/ i = "I1" /\ (IDsDiffer(b) \/ TypesDiffer(b))
        \/ i = "I2" /\ VersionGap(b)
        \/ i = "I3" /\ WrongFirstVersion(b, current)
        \/ i = "I4" /\ ReasonMissing(b)}

\* The errors of the earliest violated precondition in the order I1, I2, I3, I4.
EarliestPreconditionErrors(b, current) ==
    IF "I1" \in Violated(b, current)
    THEN (IF IDsDiffer(b) THEN {ErrEventMultipleAggregates} ELSE {})
            \cup (IF TypesDiffer(b) THEN {ErrEventMultipleAggregateTypes} ELSE {})
    ELSE IF "I2" \in Violated(b, current) \/ "I3" \in Violated(b, current)
    THEN {ErrConcurrency}
    ELSE IF "I4" \in Violated(b, current) THEN {ErrReasonMissing}
    ELSE {ErrNil}

\* The first event of b, in batch order, that fails a check, and the first check
\* it fails in the order aggregate ID, aggregate type, version, reason.
FirstFailingCheck(b, current) ==
    LET Previous(k) == IF k = 1 THEN current ELSE b[k - 1].Version
        Fails(k) ==
            \/ b[k].AggregateID # b[1].AggregateID
            \/ b[k].AggregateType # b[1].AggregateType
            \/ b[k].Version # Previous(k) + 1
            \/ b[k].Data = NilData
        failing == {k \in 1..Len(b) : Fails(k)}
    IN  IF failing = {} THEN ErrNil
        ELSE LET k == CHOOSE i \in failing : \A j \in failing : i <= j
             IN  IF b[k].AggregateID # b[1].AggregateID THEN ErrEventMultipleAggregates
                 ELSE IF b[k].AggregateType # b[1].AggregateType
                 THEN ErrEventMultipleAggregateTypes
                 ELSE IF b[k].Version # Previous(k) + 1 THEN ErrConcurrency
                 ELSE ErrReasonMissing

\* C8 as stated: for a batch that violates more than one precondition, Save
\* returns the error of the earliest violated one in the order non-empty, I1,
\* I2, I3, I4.
C8_EarliestPreconditionWins ==
    \A p \in Procs :
        ( /\ pc[p] = "done"
          /\ Len(events[p]) > 0
          /\ Cardinality(Violated(events[p], currentVersion[p])) > 1 )
        => err[p] \in EarliestPreconditionErrors(events[p], currentVersion[p])

\* C8: for a batch that violates more than one precondition, Save returns the
\* error of the first check that fails when the events are checked one after
\* the other, each one for its aggregate ID, its aggregate type, its version
\* (last stored + 1 for the first event, previous + 1 after it) and its reason,
\* and appends nothing.
C8_FirstFailingCheckWins ==
    \A p \in Procs :
        ( /\ pc[p] = "done"
          /\ Len(events[p]) > 0
          /\ Cardinality(Violated(events[p], currentVersion[p])) > 1 )
        => /\ err[p] = FirstFailingCheck(events[p], currentVersion[p])
           /\ RowsOfCall(callNo[p]) = <<>>

\* A batch whose first event has no payload and whose second event names
\* another aggregate was rejected for the missing reason.
C8_Witness ==
    \E p \in Procs :
        /\ pc[p] = "done"
        /\ Len(events[p]) = 2
        /\ events[p][1].Data = NilData
        /\ events[p][2].AggregateID # events[p][1].AggregateID
        /\ err[p] = ErrReasonMissing

\* C9 as stated: Save of an empty batch returns an error.
C9_EmptyBatchRejected ==
    \A p \in Procs :
        (pc[p] = "done" /\ callNo[p] # 0 /\ events[p] = <<>>) => err[p] # ErrNil

\* C9: Save of an empty batch returns nil, no error, and has no side effect:
\* the events table and the transactions are what they were.
C9_EmptyBatchNoError ==
    [][\A p \in Procs :
          (pc[p] = "idle" /\ pc'[p] # "idle" /\ events'[p] = <<>>)
          => /\ pc'[p] = "done"
             /\ err'[p] = ErrNil
             /\ table' = table
             /\ txRows' = txRows
             /\ writer' = writer]_vars

\* Save of an empty batch returned on a store that holds events.
C9_Witness ==
    \E p \in Procs :
        /\ pc[p] = "done" /\ callNo[p] # 0
        /\ events[p] = <<>>
        /\ err[p] = ErrNil
        /\ table # <<>>

\* The batch rule that b violates, when it violates exactly one of: differing
\* aggregate IDs, differing aggregate types, non-consecutive versions inside
\* the batch, an event without payload.
BatchRulesViolated(b) ==
    {r \in {"id", "type", "version", "reason"} :
        \/ r = "id" /\ IDsDiffer(b)
        \/ r = "type" /\ TypesDiffer(b)
        \/ r = "version" /\ VersionGap(b)
        \/ r = "reason" /\ ReasonMissing(b)}

RuleError(r) ==
    CASE r = "id" -> ErrEventMultipleAggregates
      [] r = "type" -> ErrEventMultipleAggregateTypes
      [] r = "version" -> ErrConcurrency
      [] r = "reason" -> ErrReasonMissing

\* C10: a batch that violates exactly one rule (its first version being the
\* stream's last stored version + 1) is rejected with the error of that rule,
\* and none of its events is in the table.
C10_SingleViolation ==
    \A p \in Procs :
        ( /\ pc[p] = "done"
          /\ Len(events[p]) > 0
          /\ ~WrongFirstVersion(events[p], currentVersion[p])
          /\ Cardinality(BatchRulesViolated(events[p])) = 1 )
        => /\ \A r \in BatchRulesViolated(events[p]) : err[p] = RuleError(r)
           /\ RowsOfCall(callNo[p]) = <<>>

\* A batch whose only fault is a second event without payload was rejected, on
\* a store that holds events.
C10_Witness ==
    \E p \in Procs :
        /\ pc[p] = "done"
        /\ Len(events[p]) = 2
        /\ BatchRulesViolated(events[p]) = {"reason"}
        /\ events[p][1].Data # NilData
        /\ ~WrongFirstVersion(events[p], currentVersion[p])
        /\ err[p] = ErrReasonMissing
        /\ table # <<>>
        /\ RowsOfCall(callNo[p]) = <<>>

\* The rows of the events table that belong to stream (id, typ) and have a
\* version greater than after.
StoredAfter(id, typ, after) ==
    {k \in 1..Len(table) :
        table[k].id = id /\ table[k].type = typ /\ table[k].version > after}

\* The iterator has returned ErrNoMoreEvents: GetWithContext left its loop on it.
IteratorEnded ==
    gpc = "done" /\ iter.valid /\ gErr \in {ErrNil, ErrAggregateNotFound}

\* C11: the iterator that the event store's Get(S, after = v) returns yields
\* stored events of stream S with version > v only, each with the payload that
\* was stored, in ascending version order and none twice, and when it reports
\* no-more-events it has yielded every such event.
C11_IteratorYieldsStreamAfter ==
    iter.valid =>
        LET ys == iter.yielded
        IN  /\ \A k \in 1..Len(ys) :
                   /\ ys[k].Version > gAfter
                   /\ \E j \in StoredAfter(gId, "Person", gAfter) :
                          /\ table[j].version = ys[k].Version
                          /\ table[j].seq = ys[k].GlobalVersion
                          /\ Unmarshal(table[j].data) = ys[k].Data
                          /\ ys[k].AggregateID = gId
                          /\ ys[k].AggregateType = "Person"
            /\ \A k \in 2..Len(ys) : ys[k - 1].Version < ys[k].Version
            /\ IteratorEnded =>
                   /\ {ys[k].Version : k \in 1..Len(ys)}
                        = {table[j].version : j \in StoredAfter(gId, "Person", gAfter)}
                   /\ Len(ys) = Cardinality(StoredAfter(gId, "Person", gAfter))

\* An iterator asked for the events after version 2 of a stream of four events
\* yielded two events and ended.
C11_Witness ==
    /\ IteratorEnded
    /\ gAfter = 2
    /\ Len(iter.yielded) = 2
    /\ Cardinality(StoredAfter(gId, "Person", 0)) = 4

\* C12: concurrent Saves to different streams succeed independently: when two
\* Save calls, each with a valid batch for its own aggregate ID, run
\* concurrently, both return nil and the rows each one stored are the events of
\* its batch.
C12_DifferentStreamsSucceed ==
    \A p, q \in Procs :
        ( /\ p # q
          /\ pc[p] = "done" /\ pc[q] = "done"
          /\ Len(events[p]) > 0 /\ Len(events[q]) > 0
          /\ events[p][1].AggregateID # events[q][1].AggregateID
          /\ ValidBatch(events[p], currentVersion[p])
          /\ ValidBatch(events[q], currentVersion[q]) )
        => /\ err[p] = ErrNil
           /\ Len(RowsOfCall(callNo[p])) = Len(events[p])
           /\ \A k \in 1..Len(events[p]) :
                  /\ RowsOfCall(callNo[p])[k].id = events[p][k].AggregateID
                  /\ RowsOfCall(callNo[p])[k].version = events[p][k].Version

\* GetWithContext has returned without a failure of its environment: the
\* context was not cancelled and the iterator's Next did not fail.
GetFinished == gpc = "done" /\ ~ctx /\ gErr # ErrScan

\* The aggregates that were built by commands and successful Save calls and
\* whose ID is the one GetWithContext loads: every event of the aggregate is
\* saved, and its version is the last one of its stream.
Originals ==
    {b \in Aggregates \ {gAgg} :
        /\ root[b].aggregateID = gId
        /\ root[b].aggregateVersion > 0
        /\ root[b].aggregateVersion = SelectLastVersion(table, gId, "Person")
        /\ ~UnsavedEvents(root[b])}

\* C13: replay round trip: for an aggregate built by commands (TrackChange) and
\* successful Repository.Save calls, Get of its ID into a fresh empty aggregate
\* (by replay of its events, no snapshot being stored for the ID) returns nil
\* and yields the same Name and Age, the same ID and the same Version().
C13_ReplayRoundTrip ==
    ( /\ GetFinished
      /\ gFresh
      /\ SnapshotRows(snapshots, gId, "Person") = {} )
    => \A b \in Originals :
           /\ gErr = ErrNil
           /\ person[gAgg].Name = person[b].Name
           /\ person[gAgg].Age = person[b].Age
           /\ root[gAgg].aggregateID = root[b].aggregateID
           /\ Version(root[gAgg]) = Version(root[b])

\* A person with four saved events (born, three years older) was loaded into a
\* fresh aggregate by replay.
C13_Witness ==
    /\ GetFinished
    /\ gFresh
    /\ gSnap = NoSnapshot
    /\ snapshots = <<>>
    /\ Originals # {}
    /\ gErr = ErrNil
    /\ Version(root[gAgg]) = 4
    /\ person[gAgg] = [Name |-> "kalle", Age |-> 3]

\* The versions of the events the iterator has yielded, in order.
YieldedVersions == [k \in 1..Len(iter.yielded) |-> iter.yielded[k].Version]

\* C14: snapshot plus tail replay: after n events were saved, SaveSnapshot was
\* called and m >= 1 more events were saved, Get into an empty aggregate returns
\* nil, restores the snapshot at version n, asks the event store for the events
\* after version n only, applies exactly the events n + 1 .. n + m in order and
\* ends with Version() = n + m and the Name, Age and ID of the original.
C14_SnapshotPlusTail ==
    ( /\ GetFinished
      /\ gFresh
      /\ SnapshotRows(snapshots, gId, "Person") # {} )
    => \A b \in Originals :
           LET n == SnapshotStoreGet(snapshots, gId, "Person").Version
               m == Version(root[b]) - n
           IN  m >= 1 =>
                  /\ gErr = ErrNil
                  /\ gSnap.Version = n
                  /\ gAfter = n
                  /\ YieldedVersions = [k \in 1..m |-> n + k]
                  /\ Version(root[gAgg]) = n + m
                  /\ person[gAgg].Name = person[b].Name
                  /\ person[gAgg].Age = person[b].Age
                  /\ root[gAgg].aggregateID = root[b].aggregateID

\* A snapshot taken at version 2 and two later events were loaded into an
\* empty aggregate, which ended at version 4.
C14_Witness ==
    /\ GetFinished
    /\ gFresh
    /\ Originals # {}
    /\ gErr = ErrNil
    /\ gSnap.Version = 2
    /\ gAfter = 2
    /\ YieldedVersions = <<3, 4>>
    /\ Version(root[gAgg]) = 4

\* The event store returned zero events: ErrNoEvents from Get, or an iterator
\* without events.
StoreReturnedNothing ==
    \/ storeErr = ErrNoEvents
    \/ storeErr = ErrNil /\ iter.valid /\ iter.rows = <<>>

\* C15: Get fails with aggregate-not-found whenever no snapshot was loaded and
\* the event store returned zero events, whichever way the store signals the
\* empty result and whatever aggregate was passed in.
C15_EmptyResultIsNotFound ==
    (GetFinished /\ gSnap = NoSnapshot /\ StoreReturnedNothing)
        => gErr = ErrAggregateNotFound

\* C16: Get succeeds whenever a snapshot was loaded, even if the stream has no
\* event after the snapshot's version: for both store behaviours on an empty
\* result and every snapshot version, Get returns nil without crashing and
\* leaves the aggregate at the snapshot's version.
C16_SnapshotAloneSucceeds ==
    (GetFinished /\ gSnap # NoSnapshot /\ StoreReturnedNothing)
        => /\ gErr = ErrNil
           /\ Version(root[gAgg]) = gSnap.Version

\* C17: every iterator that the event store hands to GetWithContext is closed
\* exactly once before GetWithContext returns, on every exit path: end of the
\* stream, aggregate-not-found, an error from Next, cancellation observed right
\* after the store's Get returned, cancellation observed during iteration.
C17_IteratorClosedOnce ==
    /\ (gpc = "done" /\ iter.valid) => iter.closed = 1
    /\ iter.closed <= 1

\* A step of GetWithContext taken when the context is already cancelled.
StepAfterCancel == ctx /\ gpc \notin {"idle", "done"} /\ gpc' # gpc

\* C18 as stated: when the context is cancelled before an iterator step, right
\* after the snapshot load or after the store's Get, GetWithContext returns the
\* context's error and applies no further event.
C18_CancelReturnsCtxError ==
    [][StepAfterCancel =>
          /\ root' = root
          /\ person' = person
          /\ gpc # "store" => gpc' = "done"
          /\ gpc' = "done" => gErr' = ErrCanceled]_vars

\* C18: when the context is cancelled before an iterator step, right after the
\* snapshot load or after the store's Get, GetWithContext makes no further
\* step but its return and applies no further event; it returns the context's
\* error, except that after a store's Get that returned no-events for an
\* aggregate at version 0 it returns aggregate-not-found.
C18_CancelStopsGet ==
    [][StepAfterCancel =>
          /\ root' = root
          /\ person' = person
          /\ gpc # "store" => gpc' = "done"
          /\ gpc' = "done" =>
                IF gpc = "afterStore" /\ storeErr = ErrNoEvents /\ Version(root[gAgg]) = 0
                THEN gErr' = ErrAggregateNotFound
                ELSE gErr' = ErrCanceled]_vars

\* The context was cancelled during the iteration: one of two events was
\* applied, the call returned the context's error.
C18_Witness ==
    /\ gpc = "done"
    /\ ctx
    /\ gErr = ErrCanceled
    /\ iter.valid
    /\ Len(iter.rows) = 2
    /\ Len(iter.yielded) = 1
    /\ Version(root[gAgg]) = iter.yielded[1].Version

\* C19: SaveSnapshot fails with ErrEmptyID when the aggregate's ID is empty
\* (checked first), else with ErrUnsavedEvents when the aggregate has pending
\* events; in both cases nothing is written to the snapshot store and a
\* previous snapshot stays as it was.
C19_SaveSnapshotRejects ==
    [][nSnaps' # nSnaps =>
          LET r == root[snapAgg']
          IN  /\ r.aggregateID = emptyAggregateID =>
                     /\ snapErr' = ErrEmptyID
                     /\ snapshots' = snapshots
              /\ (r.aggregateID # emptyAggregateID /\ UnsavedEvents(r)) =>
                     /\ snapErr' = ErrUnsavedEvents
                     /\ snapshots' = snapshots]_vars

\* SaveSnapshot was rejected for unsaved events while the snapshot store held
\* an earlier snapshot of the aggregate, which is still at its version.
C19_Witness ==
    /\ nSnaps = 2
    /\ snapErr = ErrUnsavedEvents
    /\ UnsavedEvents(root[snapAgg])
    /\ Len(snapshots) = 1
    /\ snapshots[1].id = root[snapAgg].aggregateID
    /\ snapshots[1].version = root[snapAgg].aggregateVersion

\* C20: snapshot round trip of the root's internals: an aggregate with ID i,
\* version v and global version g that is saved with SaveSnapshot and then
\* loaded through the snapshot handler into an empty aggregate, with no later
\* event, has ID() = i, Version() = v, GlobalVersion() = g and no pending events.
C20_SnapshotRoundTrip ==
    ( /\ gpc = "done"
      /\ gErr = ErrNil
      /\ gFresh
      /\ gSnap # NoSnapshot
      /\ iter.yielded = <<>> )
    => \A b \in Originals :
           Version(root[b]) = gSnap.Version =>
               /\ root[gAgg].aggregateID = root[b].aggregateID
               /\ Version(root[gAgg]) = Version(root[b])
               /\ GlobalVersion(root[gAgg]) = GlobalVersion(root[b])
               /\ ~UnsavedEvents(root[gAgg])

\* No Save of the snapshot store is running.
SnapStoreQuiet == \A p \in Procs : spc[p] \in {"idle", "done"}

\* C21: the snapshot store holds at most one snapshot per (id, type): after any
\* sequence of Save calls for the same key, including two calls whose
\* select-then-insert/update steps interleave, exactly one snapshot is stored
\* for the key and Get returns the one written by the last completed Save.
C21_OneSnapshotPerKey ==
    \A id \in AggregateIDs :
        /\ Cardinality(SnapshotRows(snapshots, id, "Person")) <= 1
        /\ (SnapStoreQuiet /\ lastSaved[id] # NoSnapshot) =>
               /\ Cardinality(SnapshotRows(snapshots, id, "Person")) = 1
               /\ SnapshotStoreGet(snapshots, id, "Person") = lastSaved[id]

\* C22: SetID(x) sets the aggregate ID to x only when the ID is empty; when the
\* ID is already set (by an earlier SetID or by the first TrackChange) it fails
\* with ErrAggregateAlreadyExists and leaves the ID unchanged; an ID that is
\* set stays through every later TrackChange, which stamps it on its event
\* whatever the ID generator would return.
C22_SetIDOnlyWhenEmpty ==
    [][/\ idCall' # idCall =>
             LET a == idCall'.agg
             IN  IF root[a].aggregateID = emptyAggregateID
                 THEN /\ idCall'.err = ErrNil
                      /\ root'[a] = [root[a] EXCEPT !.aggregateID = idCall'.id]
                 ELSE /\ idCall'.err = ErrAggregateAlreadyExists
                      /\ root' = root
       /\ nTracks' # nTracks =>
             \A a \in Aggregates :
                 (root[a].aggregateID # emptyAggregateID /\ root'[a] # root[a]) =>
                     /\ root'[a].aggregateID = root[a].aggregateID
                     /\ root'[a].aggregateEvents[Len(root'[a].aggregateEvents)].AggregateID
                            = root[a].aggregateID]_vars

\* An aggregate got the ID 2 from SetID (the generator, which would have
\* returned another ID, returns the empty ID by now), tracked a change under
\* this ID, and a later SetID(1) on it was rejected.
C22_Witness ==
    \E a \in Aggregates :
        /\ idCall = [agg |-> a, id |-> 1, err |-> ErrAggregateAlreadyExists]
        /\ root[a].aggregateID = 2
        /\ idFuncEmpty
        /\ Len(root[a].aggregateEvents) >= 1
        /\ \A k \in 1..Len(root[a].aggregateEvents) : root[a].aggregateEvents[k].AggregateID = 2
        /\ \A b \in Aggregates \ {a} : root[b] = EmptyRoot

\* C23: a TrackChange / TrackChangeWithMetadata whose ID generator returns the
\* empty ID fails without appending an event and without applying the
\* transition, so no pending event ever carries the empty aggregate ID.
C23_NoPendingEventWithEmptyID ==
    \A a \in Aggregates :
        \A k \in 1..Len(root[a].aggregateEvents) :
            root[a].aggregateEvents[k].AggregateID # emptyAggregateID

\* The step in which Repository.Save of thread p returns nil.
RepoSaveSucceeds(p) ==
    /\ pc[p] = "done" /\ pc'[p] = "idle"
    /\ caller[p] # NoAggregate
    /\ err[p] = ErrNil

\* The event is stored durably under the global version it carries.
Durable(event) ==
    /\ event.GlobalVersion # 0
    /\ \E j \in 1..Len(table) :
          /\ table[j].seq = event.GlobalVersion
          /\ table[j].id = event.AggregateID
          /\ table[j].type = event.AggregateType
          /\ table[j].version = event.Version

\* C24: a successful Repository.Save appends, then publishes, then resets: when
\* the events are handed to the event stream all pending events are durable,
\* each published event carries the non-zero global version the store gave it,
\* and the pending events are cleared only by the Save that published them,
\* before it returns.
C24_AppendPublishReset ==
    [][/\ \A p \in Procs :
             RepoSaveSucceeds(p) =>
                 LET pending == root[caller[p]].aggregateEvents
                 IN  /\ \A k \in 1..Len(pending) : Durable(pending[k])
                     /\ published' = published \o pending
                     /\ root'[caller[p]].aggregateEvents = <<>>
       /\ published' # published => \E p \in Procs : RepoSaveSucceeds(p)
       /\ \A a \in Aggregates :
             (root[a].aggregateEvents # <<>> /\ root'[a].aggregateEvents = <<>>) =>
                 \E p \in Procs : RepoSaveSucceeds(p) /\ caller[p] = a]_vars

\* Two successful saves of one event each: both events were published with
\* the global versions 1 and 2 of their rows, and nothing is pending.
C24_Witness ==
    /\ nCalls = 2
    /\ Len(table) = 2
    /\ Len(published) = 2
    /\ published[1].GlobalVersion = 1
    /\ published[2].GlobalVersion = 2
    /\ \A a \in Aggregates : root[a].aggregateEvents = <<>>
    /\ \A p \in Procs : pc[p] = "idle"

\* The rows stored for the stream (id, typ).
StreamRows(rows, id, typ) ==
    {k \in 1..Len(rows) : rows[k].id = id /\ rows[k].type = typ}

\* C25: after a successful Repository.Save of at least one pending event the
\* aggregate's GlobalVersion() is the global version the store assigned to the
\* last event of the batch, which is the highest global version stored for
\* the stream.
C25_GlobalVersionAfterSave ==
    [][\A p \in Procs :
          (RepoSaveSucceeds(p) /\ Len(root[caller[p]].aggregateEvents) >= 1) =>
              LET pending == root[caller[p]].aggregateEvents
                  last == pending[Len(pending)]
                  stream == StreamRows(table', last.AggregateID, last.AggregateType)
                  gv == GlobalVersion(root'[caller[p]])
              IN  /\ \E k \in stream : table'[k].version = last.Version /\ table'[k].seq = gv
                  /\ gv = Max({table'[k].seq : k \in stream})]_vars

\* An aggregate whose batch of two events was saved after another stream's
\* event: its version is 2, its global version 3.
C25_Witness ==
    \E a \in Aggregates :
        /\ root[a].aggregateVersion = 2
        /\ GlobalVersion(root[a]) = 3
        /\ root[a].aggregateEvents = <<>>
        /\ Len(table) = 3
        /\ table[3].id = root[a].aggregateID /\ table[3].seq = 3
        /\ \A p \in Procs : pc[p] = "idle"

\* C26: a successful load resets the aggregate: after a Repository.Get that
\* applied events to an aggregate, whatever the aggregate held before, it has
\* no pending events, and Version() and GlobalVersion() are those of the last
\* event applied.
C26_LoadResetsAggregate ==
    [][nGets' # nGets =>
          \A a \in Aggregates :
              root'[a] # root[a] =>
                  LET evs == EventsAfter(table, root'[a].aggregateID, "Person", Version(root[a]))
                  IN  /\ ~UnsavedEvents(root'[a])
                      /\ Version(root'[a]) = evs[Len(evs)].Version
                      /\ GlobalVersion(root'[a]) = evs[Len(evs)].GlobalVersion]_vars

\* C28: a stored snapshot represents a durable state: the version of every
\* snapshot is at most the last version the event store holds for the stream
\* of the same ID and type.
C28_SnapshotNotAheadOfStream ==
    \A k \in 1..Len(snapshots) :
        snapshots[k].version <= SelectLastVersion(table, snapshots[k].id, snapshots[k].type)

\* C27: the event log is append-only: every stored row stays where it is with
\* the same id, type, version, global version and payload; no step of a Save
\* (successful or failed) or of a Get changes or removes it.
C27_AppendOnly ==
    [][/\ Len(table') >= Len(table)
       /\ SubSeq(table', 1, Len(table)) = table]_vars

\* A Repository.Save has failed after events were stored and a Get had run.
C27_Witness ==
    /\ Len(table) >= 1
    /\ nGets = 1
    /\ \E p \in Procs : pc[p] = "done" /\ caller[p] # NoAggregate /\ err[p] # ErrNil

StreamOf(rows, id, typ) == SelectSeq(rows, LAMBDA r : r.id = id /\ r.type = typ)

\* The last version stored for the stream (id, typ), 0 for an empty stream.
LastStored(rows, id, typ) ==
    Max({0} \cup {rows[k].version : k \in StreamRows(rows, id, typ)})

\* C30: the stream key is the pair (id, aggregate type): a Save to stream
\* (i, T1) is validated against the last stored version of (i, T1) only, its
\* commit leaves every other stream, (i, T2) included, unchanged, so that two
\* aggregates of different types with one ID can each be saved from version 1,
\* and the query of Get(i, T1, v) never yields an event of another type or ID
\* (the table is empty at first, so the query is looked at whenever the table
\* changes).
C30_StreamKeyIsIdAndType ==
    [][/\ \A p \in Procs :
             (pc[p] = "validate" /\ pc'[p] # "validate") =>
                 LET i == events[p][1].AggregateID
                     T1 == events[p][1].AggregateType
                     e == ValidateEvents(i, LastStored(table, i, T1), events[p])
                 IN  IF e = ErrNil THEN pc'[p] = "insert"
                     ELSE pc'[p] = "done" /\ err'[p] = e
       /\ \A p \in Procs :
             (pc[p] = "commit" /\ pc'[p] = "done") =>
                 \A id \in AggregateIDs, typ \in AggregateTypes :
                     <<id, typ>> # <<events[p][1].AggregateID, events[p][1].AggregateType>> =>
                         StreamOf(table', id, typ) = StreamOf(table, id, typ)
       /\ table' # table =>
             \A id \in AggregateIDs, typ \in AggregateTypes, v \in 0..Max(Versions) :
                 LET got == EventsAfter(table', id, typ, v)
                 IN  \A k \in 1..Len(got) :
                         got[k].AggregateID = id /\ got[k].AggregateType = typ]_vars

\* A Person and an Account with the same ID were both saved from version 1.
C30_Witness ==
    \E i \in AggregateIDs :
        /\ LastStored(table, i, "Person") >= 1
        /\ LastStored(table, i, "Account") >= 1
        /\ Len(EventsAfter(table, i, "Account", 0)) = Len(StreamOf(table, i, "Account"))
        /\ \E p \in Procs :
              /\ pc[p] = "done" /\ err[p] = ErrNil
              /\ Len(events[p]) >= 1
              /\ events[p][1].AggregateType = "Account" /\ events[p][1].Version = 1

\* C31: loading is independent of which snapshot is stored: whatever Save and
\* SaveSnapshot calls were made, a Get of a stream that holds events into a
\* fresh empty aggregate returns nil with Version() equal to the last stored
\* version of the stream and with the Name and Age that the fold of all stored
\* events of the stream gives.
C31_LoadIndependentOfSnapshot ==
    ( /\ GetFinished
      /\ gFresh
      /\ LastStored(table, gId, "Person") >= 1 )
    => /\ gErr = ErrNil
       /\ Version(root[gAgg]) = LastStored(table, gId, "Person")
       /\ person[gAgg] = Replay([Name |-> "", Age |-> 0], EventsAfter(table, gId, "Person", 0))

\* C32: pending events stay contiguous with the persisted version: in every
\* state the pending events of an aggregate have the versions persisted
\* version + 1, persisted version + 2, ... in order, and all carry the
\* aggregate's current ID.
C32_PendingContiguous ==
    \A a \in Aggregates :
        \A k \in 1..Len(root[a].aggregateEvents) :
            /\ root[a].aggregateEvents[k].Version = root[a].aggregateVersion + k
            /\ root[a].aggregateEvents[k].AggregateID = root[a].aggregateID

====
